---- MODULE Spec2Model ----
(***************************************************************************)
(* A model of the SLCAN serial-to-CAN adapter firmware (rusty-can):        *)
(* the byte accumulator, the command parser and dispatcher, the frame      *)
(* codec, the two bounded byte queues and the channel controller, with     *)
(* the three RTIC tasks that drive them (serial, tick, tick_can).          *)
(* Bytes are integers 0..255; a panic (panic_halt) stops the firmware.     *)
(***************************************************************************)
EXTENDS Integers, Sequences, FiniteSets, TLC

(***************************************************************************)
(* Program constants                                                       *)
(***************************************************************************)
COMMAND_TERMINATOR == 13
ERROR_CHAR == 7
\* heapless::Deque<u8, 128>
QueueCapacity == 128
\* heapless::Vec<u8, 32> (RequestData, Command.data)
RequestCapacity == 32
\* heapless::Vec<u8, 32> (ResponseData)
ResponseCapacity == 32
\* heapless::Vec<u8, 24> (can_frame_representation's rep)
RepCapacity == 24
\* heapless::Vec<u8, 16> (data_str)
DataStrCapacity == 16
\* a frame carries at most 8 data bytes (bxcan::Data)
MaxDataLen == 8

(***************************************************************************)
(* Bounds of the model (the environment, not the program)                  *)
(***************************************************************************)
\* replies the host leaves unread in tx_queue before the flush task runs
MaxPending == 2
\* bytes the flooding host sends on one line before it stops
MaxFlood == 130
\* frames the bus delivers before the flush task runs, outside a burst
MaxFrames == 1
\* argument bytes of the transmit lines drawn for the codec specification
MaxArgs == 9

\* ASCII codes of the letters the protocol uses
Ch == [S |-> 83, s |-> 115, O |-> 79, C |-> 67, t |-> 116, T |-> 84,
       r |-> 114, R |-> 82, F |-> 70, M |-> 77, m |-> 109, V |-> 86,
       N |-> 78, Z |-> 90, X |-> 88, d0 |-> 48, d1 |-> 49, d2 |-> 50,
       d3 |-> 51, d4 |-> 52, d5 |-> 53, d6 |-> 54, d7 |-> 55, d8 |-> 56,
       d9 |-> 57, A |-> 65, B |-> 66, g |-> 103]

(***************************************************************************)
(* Rust / heapless / hex primitives, by what they do                       *)
(***************************************************************************)
\* &v[a..b]: 0-based, end exclusive; panics unless a <= b <= len
SliceOk(v, a, b) == a <= b /\ b <= Len(v)
Slice(v, a, b) == SubSeq(v, a + 1, b)

\* u16/u32::to_be_bytes and from_be_bytes
Pow256(n) == IF n = 0 THEN 1 ELSE IF n = 1 THEN 256 ELSE IF n = 2 THEN 65536 ELSE 16777216
ToBeBytes(v, n) == [i \in 1..n |-> (v \div Pow256(n - i)) % 256]
FromBeBytes(bs) ==
    LET n == Len(bs)
        Sum[i \in 0..n] == IF i = 0 THEN 0 ELSE Sum[i - 1] * 256 + bs[i]
    IN Sum[n]

\* hex crate: val() of one hex digit, -1 for InvalidHexCharacter
HexVal(b) ==
    IF b >= 48 /\ b <= 57 THEN b - 48
    ELSE IF b >= 97 /\ b <= 102 THEN b - 87
    ELSE IF b >= 65 /\ b <= 70 THEN b - 55
    ELSE -1

\* hex::decode_to_slice(data, out) with out of length n:
\* OddLength, InvalidStringLength and InvalidHexCharacter are all errors
HexDecodeToSlice(data, n) ==
    IF Len(data) % 2 # 0 THEN [ok |-> FALSE, out |-> <<>>]
    ELSE IF Len(data) \div 2 # n THEN [ok |-> FALSE, out |-> <<>>]
    ELSE IF \E i \in 1..Len(data) : HexVal(data[i]) < 0 THEN [ok |-> FALSE, out |-> <<>>]
    ELSE [ok |-> TRUE,
          out |-> [i \in 1..n |-> HexVal(data[2 * i - 1]) * 16 + HexVal(data[2 * i])]]

\* hex::encode_to_slice writes lowercase digits
HexChars == <<48, 49, 50, 51, 52, 53, 54, 55, 56, 57, 97, 98, 99, 100, 101, 102>>
HexEncode(bytes) ==
    [i \in 1..(2 * Len(bytes)) |->
        IF i % 2 = 1 THEN HexChars[(bytes[(i + 1) \div 2] \div 16) + 1]
        ELSE HexChars[(bytes[i \div 2] % 16) + 1]]

\* <[u8]>::make_ascii_uppercase
MakeAsciiUppercase(s) ==
    [i \in 1..Len(s) |-> IF s[i] >= 97 /\ s[i] <= 122 THEN s[i] - 32 ELSE s[i]]

\* HexOutput::as_hex: hex of as_bytes(), uppercased
AsHex(bytes) == MakeAsciiUppercase(HexEncode(bytes))

\* a heapless::Vec being built: panic is set once an unwrap on it failed
NewVec == [panic |-> FALSE, v |-> <<>>]
\* extend_from_slice(s).unwrap() / extend(s) on a Vec of capacity cap
VecExtend(vec, s, cap) ==
    IF vec.panic \/ Len(vec.v) + Len(s) > cap
    THEN [panic |-> TRUE, v |-> vec.v]
    ELSE [panic |-> FALSE, v |-> vec.v \o s]

\* heapless::Deque::push_back, one byte after another, stopping at the first
\* failure (the ? in the loops): the bytes pushed before it stay in the queue
PushAll(queue, bytes) ==
    LET room == QueueCapacity - Len(queue)
    IN IF Len(bytes) <= room
       THEN [ok |-> TRUE, queue |-> queue \o bytes]
       ELSE [ok |-> FALSE, queue |-> queue \o SubSeq(bytes, 1, room)]

(***************************************************************************)
(* Results of handlers: Ok(bytes), Err(kind), or a panic                   *)
(***************************************************************************)
Ok(bytes) == [kind |-> "Ok", err |-> "", data |-> bytes]
Err(e) == [kind |-> "Err", err |-> e, data |-> <<>>]
Panic == [kind |-> "Panic", err |-> "", data |-> <<>>]

(***************************************************************************)
(* Frames (bxcan::Frame) and the frame codec                               *)
(***************************************************************************)
\* a data frame; rtr marks a remote frame, whose data() is None
DataFrame(ext, id, data) == [ext |-> ext, id |-> id, rtr |-> FALSE, data |-> data]
RemoteFrame(ext, id) == [ext |-> ext, id |-> id, rtr |-> TRUE, data |-> <<>>]

\* bxcan::StandardId::new / ExtendedId::new of u16/u32::from_be_bytes(bs)
\* accept 11 / 29 bits; a u32 of 2^31 or more is rejected by its first byte,
\* before its value is computed
StandardIdValid(bs) == FromBeBytes(bs) <= 2047
ExtendedIdValid(bs) == bs[1] < 128 /\ FromBeBytes(bs) <= 536870911

\* char::from_digit(n, 10).unwrap() as u8
FromDigit(n) == 48 + n

\* the 2 uppercase hex digits of each data byte, collected in data_str
DataStr(data) ==
    LET Build[i \in 0..Len(data)] ==
            IF i = 0 THEN NewVec
            ELSE VecExtend(Build[i - 1], AsHex(<<data[i]>>), DataStrCapacity)
    IN Build[Len(data)]

\* SLCAN::can_frame_representation
can_frame_representation(frame, include_start_byte) ==
    LET r1 == IF include_start_byte
              THEN VecExtend(NewVec, <<IF frame.ext THEN Ch.T ELSE Ch.t>>, RepCapacity)
              ELSE NewVec
        r2 == IF frame.ext
              THEN VecExtend(r1, AsHex(ToBeBytes(frame.id, 4)), RepCapacity)
              ELSE VecExtend(r1, Tail(AsHex(ToBeBytes(frame.id, 2))), RepCapacity)
    IN IF frame.rtr
       THEN VecExtend(r2, <<Ch.d0>>, RepCapacity)
       ELSE LET r3 == IF Len(frame.data) >= 10 THEN [panic |-> TRUE, v |-> r2.v]
                      ELSE VecExtend(r2, <<FromDigit(Len(frame.data))>>, RepCapacity)
                data_str == DataStr(frame.data)
            IN IF data_str.panic THEN [panic |-> TRUE, v |-> r3.v]
               ELSE VecExtend(r3, data_str.v, RepCapacity)

(***************************************************************************)
(* Transmit-command decoding (run_transmit_frame, run_transmit_extended_   *)
(* frame): data is Command.data, the line without its command letter       *)
(***************************************************************************)
NoFrame == DataFrame(FALSE, 0, <<>>)
Decoded(frame) == [kind |-> "Ok", err |-> "", frame |-> frame]
DecodeInvalid == [kind |-> "Err", err |-> "InvalidCommand", frame |-> NoFrame]
DecodePanic == [kind |-> "Panic", err |-> "", frame |-> NoFrame]

\* the body the two handlers share up to the construction of the frame:
\* ext selects the extended handler's indices (9 and 4 id bytes) over the
\* standard handler's (4 and 2 id bytes)
DecodeTransmit(data, ext) ==
    LET min == IF ext THEN 9 ELSE 4
        nid == IF ext THEN 4 ELSE 2
    IN IF Len(data) < min THEN DecodeInvalid
       ELSE LET idd == HexDecodeToSlice(Slice(data, 1, min), nid)
            IN IF ~idd.ok THEN DecodeInvalid
               ELSE IF ~(IF ext THEN ExtendedIdValid(idd.out) ELSE StandardIdValid(idd.out))
               THEN DecodeInvalid
               ELSE LET id == FromBeBytes(idd.out)
                    IN IF ~SliceOk(data, min, min + 1) THEN DecodePanic
                       ELSE LET dl == HexDecodeToSlice(Slice(data, min, min + 1), 1)
                            IN IF ~dl.ok THEN DecodeInvalid
                               ELSE LET data_len == dl.out[1]
                                        last_idx == min + 2 * data_len
                                    IN IF data_len > 8 \/ Len(data) # last_idx
                                       THEN DecodeInvalid
                                       ELSE IF ~SliceOk(data, min + 1, last_idx)
                                       THEN DecodePanic
                                       ELSE LET dd == HexDecodeToSlice(
                                                        Slice(data, min + 1, last_idx), 8)
                                            IN IF ~dd.ok THEN DecodeInvalid
                                               ELSE Decoded(DataFrame(ext, id,
                                                        SubSeq(dd.out, 1, data_len)))

\* the echo: can_frame_representation(&frame, true) copied into ResponseData
EchoFrame(d) ==
    IF d.kind = "Panic" THEN Panic
    ELSE IF d.kind = "Err" THEN Err(d.err)
    ELSE LET rep == can_frame_representation(d.frame, TRUE)
         IN IF rep.panic \/ Len(rep.v) > ResponseCapacity THEN Panic ELSE Ok(rep.v)

run_transmit_frame(data) == EchoFrame(DecodeTransmit(data, FALSE))
run_transmit_extended_frame(data) == EchoFrame(DecodeTransmit(data, TRUE))

(***************************************************************************)
(* Protocol state (SLCAN) and channel controller (CANBus)                  *)
(***************************************************************************)
\* Option<T>: None is the empty sequence, Some(x) the sequence of x
None == <<>>
Some(x) == <<x>>

\* StatusFlags::new
StatusFlagsNew ==
    [receive_queue_full |-> FALSE, transmit_queue_full |-> FALSE,
     error_warning |-> FALSE, data_overrun |-> FALSE, error_passive |-> FALSE,
     arbitration_lost |-> FALSE, bus_error |-> FALSE]

\* StatusFlags::pack, msb0 bit numbering: bit 0 is the most significant
Bit(b) == IF b THEN 1 ELSE 0
StatusPack(st) ==
    128 * Bit(st.receive_queue_full) + 64 * Bit(st.transmit_queue_full)
    + 32 * Bit(st.error_warning) + 16 * Bit(st.data_overrun)
    + 4 * Bit(st.error_passive) + 2 * Bit(st.arbitration_lost) + Bit(st.bus_error)

\* VersionInfo and serial_number of SLCAN::new
VersionBytes == <<250, 1>>
SerialNumber == <<70, 52, 52, 54>>

\* a plausible slip: Bitrate1M given an approximate timing like the others
get_bit_timings_clamped(b) == "Ok"

\* CANBus::get_bit_timings: every bitrate of the enumeration (0..8 in the
\* order of the Setup digits) has a timing but Bitrate1M
get_bit_timings(b) == IF b = 8 THEN "InvalidTiming" ELSE "Ok"

\* the part of the state a command can touch
Engine(en, br, ts, st) ==
    [enabled |-> en, bitrate |-> br, timestamps_enabled |-> ts, status |-> st]
\* a handler's return value with the state it leaves
Ran(res, s) ==
    [res |-> res, enabled |-> s.enabled, bitrate |-> s.bitrate,
     timestamps_enabled |-> s.timestamps_enabled]

\* Command::from_bytes
Variants ==
    [c \in {Ch.S, Ch.s, Ch.O, Ch.C, Ch.t, Ch.T, Ch.r, Ch.R, Ch.F, Ch.M, Ch.m,
            Ch.V, Ch.N, Ch.Z} |->
        CASE c = Ch.S -> "Setup"
          [] c = Ch.s -> "SetupWithBTR"
          [] c = Ch.O -> "OpenChannel"
          [] c = Ch.C -> "CloseChannel"
          [] c = Ch.t -> "TransmitFrame"
          [] c = Ch.T -> "TransmitExtendedFrame"
          [] c = Ch.r -> "TransmitRTRFrame"
          [] c = Ch.R -> "TransmitExtendedRTRFrame"
          [] c = Ch.F -> "ReadStatusFlags"
          [] c = Ch.M -> "SetAcceptanceCode"
          [] c = Ch.m -> "SetAcceptanceMask"
          [] c = Ch.V -> "GetVersion"
          [] c = Ch.N -> "GetSerialNumber"
          [] c = Ch.Z -> "EnableTimeStamps"]
NoCommand == [variant |-> "", data |-> <<>>]
from_bytes(bytes) ==
    IF Len(bytes) = 0 \/ bytes[1] \notin DOMAIN Variants
    THEN [kind |-> "Err", err |-> "InvalidCommand", cmd |-> NoCommand]
    ELSE IF Len(bytes) - 1 > RequestCapacity
    THEN [kind |-> "Err", err |-> "InvalidCommand", cmd |-> NoCommand]
    ELSE [kind |-> "Ok", err |-> "",
          cmd |-> [variant |-> Variants[bytes[1]], data |-> Tail(bytes)]]

\* CANBus::set_bitrate: the state it leaves when the timing resolves
run_setup(data, s) ==
    IF Len(data) = 0 \/ data[1] < Ch.d0 \/ data[1] > Ch.d8
    THEN Ran(Err("InvalidCommand"), s)
    ELSE LET b == data[1] - Ch.d0
         IN IF get_bit_timings(b) # "Ok" THEN Ran(Err("CANError"), s)
            ELSE Ran(Ok(<<>>), [s EXCEPT !.enabled = FALSE, !.bitrate = Some(b)])

\* a plausible slip: O toggles the channel
run_open_channel_toggle(data, s) == Ran(Ok(<<>>), [s EXCEPT !.enabled = ~s.enabled])
run_open_channel(data, s) == Ran(Ok(<<>>), [s EXCEPT !.enabled = TRUE])
run_close_channel(data, s) == Ran(Ok(<<>>), [s EXCEPT !.enabled = FALSE])
\* plausible slips: the placeholder closes the channel; it reports success
run_not_implemented_closing(data, s) ==
    Ran(Err("NotImplemented"), [s EXCEPT !.enabled = FALSE])
run_not_implemented_ok(data, s) == Ran(Ok(<<>>), s)
run_not_implemented(data, s) == Ran(Err("NotImplemented"), s)
run_read_status_flags(data, s) ==
    Ran(Ok(<<Ch.F>> \o AsHex(<<StatusPack(s.status)>>)), s)
run_get_version(data, s) == Ran(Ok(<<Ch.V>> \o AsHex(VersionBytes)), s)
\* a plausible slip: the serial number hex-encoded like the version
run_get_serial_number_hex(data, s) == Ran(Ok(<<Ch.N>> \o AsHex(SerialNumber)), s)
run_get_serial_number(data, s) == Ran(Ok(<<Ch.N>> \o SerialNumber), s)
run_enable_timestamps(data, s) ==
    IF Len(data) > 0 /\ data[1] = Ch.d0
    THEN Ran(Ok(<<>>), [s EXCEPT !.timestamps_enabled = FALSE])
    ELSE IF Len(data) > 0 /\ data[1] = Ch.d1
    THEN Ran(Ok(<<>>), [s EXCEPT !.timestamps_enabled = TRUE])
    ELSE Ran(Err("InvalidCommand"), s)

\* Command::run
run(cmd, s) ==
    CASE cmd.variant = "Setup" -> run_setup(cmd.data, s)
      [] cmd.variant = "OpenChannel" -> run_open_channel(cmd.data, s)
      [] cmd.variant = "CloseChannel" -> run_close_channel(cmd.data, s)
      [] cmd.variant = "TransmitFrame" -> Ran(run_transmit_frame(cmd.data), s)
      [] cmd.variant = "TransmitExtendedFrame" ->
            Ran(run_transmit_extended_frame(cmd.data), s)
      [] cmd.variant = "ReadStatusFlags" -> run_read_status_flags(cmd.data, s)
      [] cmd.variant = "GetVersion" -> run_get_version(cmd.data, s)
      [] cmd.variant = "GetSerialNumber" -> run_get_serial_number(cmd.data, s)
      [] cmd.variant = "EnableTimeStamps" -> run_enable_timestamps(cmd.data, s)
      [] OTHER -> run_not_implemented(cmd.data, s)

(***************************************************************************)
(* State                                                                   *)
(***************************************************************************)
VARIABLES
    rx_queue,            \* Shared.rx_queue
    tx_queue,            \* Shared.tx_queue
    enabled,             \* CANBus.enabled
    bitrate,             \* SLCAN.bitrate
    timestamps_enabled,  \* SLCAN.timestamps_enabled
    status,              \* SLCAN.status
    halted,              \* the firmware panicked (panic_halt)
    scenario,            \* what the host and the bus do in this run
    typed,               \* bytes the host sent since its last terminator
    backlog,             \* replies and frames queued since the last flush
    last,                \* what the last task run did
    codec,               \* the codec specification's frame, line and result
    running              \* the tasks started and not yet returned, newest last

vars == <<rx_queue, tx_queue, enabled, bitrate, timestamps_enabled, status,
          halted, scenario, typed, backlog, last, codec, running>>
firmware == <<rx_queue, tx_queue, enabled, bitrate, timestamps_enabled, status,
              halted, scenario, typed, backlog, last, running>>

(***************************************************************************)
(* The environment: the lines the host sends and the frames on the bus     *)
(***************************************************************************)
Scenarios == {"commands", "transmit", "traffic", "flood", "burst"}

\* the short commands, with good, bad and missing arguments
CommandLines ==
    {<<Ch.V>>, <<Ch.N>>, <<Ch.F>>, <<Ch.O>>, <<Ch.C>>, <<Ch.X>>,
     <<Ch.S, Ch.d4>>, <<Ch.S, Ch.d8>>, <<Ch.Z, Ch.d1>>, <<Ch.Z, Ch.d0>>,
     <<Ch.s>>, <<Ch.r>>, <<Ch.R>>, <<Ch.M, Ch.g, Ch.d0>>, <<Ch.m>>}

\* t1230, t1231AB and T000001231AB, and every prefix of them
TransmitLines ==
    {<<Ch.t, Ch.d1, Ch.d2, Ch.d3, Ch.d0>>,
     <<Ch.t, Ch.d1, Ch.d2, Ch.d3, Ch.d1, Ch.A, Ch.B>>,
     <<Ch.T, Ch.d0, Ch.d0, Ch.d0, Ch.d0, Ch.d0, Ch.d1, Ch.d2, Ch.d3, Ch.d1, Ch.A, Ch.B>>}

HostLines(sc) ==
    CASE sc = "commands" -> CommandLines
      [] sc = "transmit" -> TransmitLines
      [] sc = "traffic" -> {<<Ch.O>>, <<Ch.C>>, <<Ch.S, Ch.d4>>}
      [] sc = "flood" -> {[i \in 1..MaxFlood |-> Ch.V], [i \in 1..MaxFlood |-> Ch.X],
                          [i \in 1..MaxFlood |-> Ch.m]}
      [] sc = "burst" -> {<<Ch.O>>, <<Ch.V>>}

\* the frames receive() may return: none on a quiet bus, a short standard
\* frame and the longest extended frame under traffic, 7-byte extended
\* frames (24 characters each) in a burst
BusFrames(sc) ==
    CASE sc = "traffic" ->
            {DataFrame(FALSE, 291, <<171>>),
             DataFrame(TRUE, 291, <<1, 2, 3, 4, 5, 6, 7, 8>>)}
      [] sc = "burst" -> {DataFrame(TRUE, 291, <<1, 2, 3, 4, 5, 6, 7>>)}
      [] OTHER -> {}

\* frames the bus may deliver between two runs of the flush task
FrameBacklog(sc) == IF sc = "burst" THEN QueueCapacity ELSE MaxFrames

HostBytes(sc) == UNION {{l[i] : i \in 1..Len(l)} : l \in HostLines(sc)}

\* the host types a prefix of one of its lines, then the terminator
HostMaySend(b) ==
    IF b = COMMAND_TERMINATOR THEN backlog.replies < MaxPending
    ELSE \E l \in HostLines(scenario) :
            /\ Len(typed) < Len(l)
            /\ SubSeq(l, 1, Len(typed)) = typed
            /\ l[Len(typed) + 1] = b

(***************************************************************************)
(* SLCAN::handle_incoming_byte                                             *)
(***************************************************************************)
Incoming(kind, err, cmd, rx, line) ==
    [kind |-> kind, err |-> err, cmd |-> cmd, rx_queue |-> rx, line |-> line]

\* the collect into RequestData panics past its capacity, before the clear
do_handle_incoming_byte(incoming_byte, rx) ==
    IF incoming_byte = COMMAND_TERMINATOR
    THEN IF Len(rx) > RequestCapacity
         THEN Incoming("Panic", "", NoCommand, rx, <<>>)
         ELSE LET c == from_bytes(rx)
              IN Incoming(IF c.kind = "Ok" THEN "Cmd" ELSE "Err", c.err, c.cmd, <<>>, rx)
    ELSE IF Len(rx) >= QueueCapacity
         THEN Incoming("Err", "QueueFull", NoCommand, rx, <<>>)
         ELSE Incoming("None", "", NoCommand, Append(rx, incoming_byte), <<>>)

\* a plausible slip: InvalidCommand latches the flag of the arm above it
StatusAfter_wrong_arm(st, r) ==
    IF r.kind # "Err" THEN st
    ELSE CASE r.err = "QueueFull" -> [st EXCEPT !.receive_queue_full = TRUE]
           [] r.err = "InvalidCommand" -> [st EXCEPT !.receive_queue_full = TRUE]
           [] r.err = "NotImplemented" -> [st EXCEPT !.error_passive = TRUE]
           [] r.err = "CANError" -> [st EXCEPT !.bus_error = TRUE]
           [] r.err = "BufferOverrun" -> [st EXCEPT !.transmit_queue_full = TRUE]

\* a plausible slip: a byte handled without error clears the register
StatusAfter_autoclear(st, r) ==
    IF r.kind # "Err" THEN StatusFlagsNew
    ELSE CASE r.err = "QueueFull" -> [st EXCEPT !.receive_queue_full = TRUE]
           [] r.err = "InvalidCommand" -> [st EXCEPT !.error_passive = TRUE]
           [] r.err = "NotImplemented" -> [st EXCEPT !.error_passive = TRUE]
           [] r.err = "CANError" -> [st EXCEPT !.bus_error = TRUE]
           [] r.err = "BufferOverrun" -> [st EXCEPT !.transmit_queue_full = TRUE]

\* the status flag each error kind latches
StatusAfter(st, r) ==
    IF r.kind # "Err" THEN st
    ELSE CASE r.err = "QueueFull" -> [st EXCEPT !.receive_queue_full = TRUE]
           [] r.err = "InvalidCommand" -> [st EXCEPT !.error_passive = TRUE]
           [] r.err = "NotImplemented" -> [st EXCEPT !.error_passive = TRUE]
           [] r.err = "CANError" -> [st EXCEPT !.bus_error = TRUE]
           [] r.err = "BufferOverrun" -> [st EXCEPT !.transmit_queue_full = TRUE]

(***************************************************************************)
(* SLCAN::handle_command_output                                            *)
(***************************************************************************)
\* a plausible slip: the terminator is pushed after the error byte too
do_handle_command_output_terminated_error(output, tx) ==
    IF output.kind = "Ok"
    THEN PushAll(tx, output.data \o <<COMMAND_TERMINATOR>>)
    ELSE PushAll(tx, <<ERROR_CHAR, COMMAND_TERMINATOR>>)

do_handle_command_output(output, tx) ==
    IF output.kind = "Ok"
    THEN PushAll(tx, output.data \o <<COMMAND_TERMINATOR>>)
    ELSE PushAll(tx, <<ERROR_CHAR>>)

handle_command_output(output, tx, st) ==
    LET result == do_handle_command_output(output, tx)
    IN [ok |-> result.ok, queue |-> result.queue,
        status |-> IF result.ok THEN st ELSE [st EXCEPT !.transmit_queue_full = TRUE]]

(***************************************************************************)
(* SLCAN::handle_incoming_can_frame                                        *)
(***************************************************************************)
handle_incoming_can_frame(frame, tx) ==
    LET repr == can_frame_representation(frame, TRUE)
        available == QueueCapacity - Len(tx)
    IN IF repr.panic THEN [res |-> Panic, queue |-> tx]
       ELSE IF Len(repr.v) >= available
       THEN [res |-> Err("BufferOverrun"), queue |-> tx]
       ELSE [res |-> Ok(<<>>), queue |-> tx \o repr.v \o <<COMMAND_TERMINATOR>>]

(***************************************************************************)
(* What a task run reports in last                                         *)
(***************************************************************************)
NoOutput == [kind |-> "", err |-> "", data |-> <<>>]
\* was_open is the channel state the task run found
Report(op, byte, parse, err, line, out, push, recv) ==
    [op |-> op, byte |-> byte, parse |-> parse, err |-> err, line |-> line,
     out |-> out, push |-> push, recv |-> recv, was_open |-> enabled]
Idle(op) == Report(op, 0, "", "", <<>>, NoOutput, "", "")

CodecState(pc, from, frame, line, res, out) ==
    [pc |-> pc, from |-> from, frame |-> frame, line |-> line, res |-> res, out |-> out]
CodecIdle == CodecState("idle", "", NoFrame, <<>>, DecodeInvalid, NoOutput)

Init ==
    /\ rx_queue = <<>>
    /\ tx_queue = <<>>
    /\ enabled = FALSE
    /\ bitrate = None
    /\ timestamps_enabled = FALSE
    /\ status = StatusFlagsNew
    /\ halted = FALSE
    /\ scenario \in Scenarios
    /\ typed = <<>>
    /\ backlog = [replies |-> 0, frames |-> 0]
    /\ last = Idle("init")
    /\ codec = CodecIdle
    /\ running = <<>>

(***************************************************************************)
(* task serial: one byte read from the USART and handled                   *)
(***************************************************************************)
Serial(read_byte) ==
    /\ ~halted
    /\ HostMaySend(read_byte)
    /\ typed' = IF read_byte = COMMAND_TERMINATOR THEN <<>> ELSE Append(typed, read_byte)
    /\ LET r == do_handle_incoming_byte(read_byte, rx_queue)
           st == StatusAfter(status, r)
       IN /\ rx_queue' = r.rx_queue
          /\ IF r.kind = "Cmd"
             THEN LET ran == run(r.cmd, Engine(enabled, bitrate, timestamps_enabled, st))
                      out == handle_command_output(ran.res, tx_queue, st)
                  IN IF ran.res.kind = "Panic"
                     THEN /\ halted' = TRUE
                          /\ status' = st
                          /\ last' = Report("serial", read_byte, r.kind, r.err, r.line,
                                            ran.res, "", "")
                          /\ UNCHANGED <<tx_queue, enabled, bitrate, timestamps_enabled,
                                         backlog>>
                     ELSE /\ enabled' = ran.enabled
                          /\ bitrate' = ran.bitrate
                          /\ timestamps_enabled' = ran.timestamps_enabled
                          /\ tx_queue' = out.queue
                          /\ status' = out.status
                          /\ halted' = ~out.ok
                          /\ backlog' = [backlog EXCEPT !.replies = @ + 1]
                          /\ last' = Report("serial", read_byte, r.kind, r.err, r.line,
                                            ran.res, IF out.ok THEN "ok" ELSE "full", "")
             ELSE /\ halted' = (r.kind = "Panic")
                  /\ status' = st
                  /\ last' = Report("serial", read_byte, r.kind, r.err, r.line,
                                    NoOutput, "", "")
                  /\ UNCHANGED <<tx_queue, enabled, bitrate, timestamps_enabled, backlog>>
    /\ UNCHANGED <<scenario, codec>>

(***************************************************************************)
(* task tick: the flush of tx_queue to the serial link; last.out holds the *)
(* bytes serial_write wrote, in the order of the pop_front calls           *)
(***************************************************************************)
Tick ==
    /\ ~halted
    /\ tx_queue' = <<>>
    /\ backlog' = [replies |-> 0, frames |-> 0]
    /\ last' = Report("tick", 0, "", "", <<>>, Ok(tx_queue), "", "")
    /\ UNCHANGED <<rx_queue, enabled, bitrate, timestamps_enabled, status, halted,
                   scenario, typed, codec>>

(***************************************************************************)
(* task tick_can: the poll of the CAN controller; received is what         *)
(* receive() would return, None when no frame is pending                   *)
(***************************************************************************)
\* a plausible slip: the poll made without the is_enabled() check
TickCan_unguarded(received) ==
    /\ ~halted
    /\ IF FALSE
       THEN /\ received = None
            /\ last' = Report("tick_can", 0, "", "", <<>>, NoOutput, "", "closed")
            /\ UNCHANGED <<tx_queue, halted, backlog>>
       ELSE IF received = None
       THEN /\ last' = Report("tick_can", 0, "", "", <<>>, NoOutput, "", "empty")
            /\ UNCHANGED <<tx_queue, halted, backlog>>
       ELSE LET h == handle_incoming_can_frame(received[1], tx_queue)
            IN /\ backlog.frames < FrameBacklog(scenario)
               /\ tx_queue' = h.queue
               /\ halted' = (h.res.kind # "Ok")
               /\ backlog' = [backlog EXCEPT !.frames = @ + 1]
               /\ last' = Report("tick_can", 0, "", "", <<>>, h.res,
                                 IF h.res.kind = "Ok" THEN "ok"
                                 ELSE IF h.res.kind = "Err" THEN "full" ELSE "",
                                 "frame")
    /\ UNCHANGED <<rx_queue, enabled, bitrate, timestamps_enabled, status, scenario,
                   typed, codec>>

TickCan(received) ==
    /\ ~halted
    /\ IF ~enabled
       THEN /\ received = None
            /\ last' = Report("tick_can", 0, "", "", <<>>, NoOutput, "", "closed")
            /\ UNCHANGED <<tx_queue, halted, backlog>>
       ELSE IF received = None
       THEN /\ last' = Report("tick_can", 0, "", "", <<>>, NoOutput, "", "empty")
            /\ UNCHANGED <<tx_queue, halted, backlog>>
       ELSE LET h == handle_incoming_can_frame(received[1], tx_queue)
            IN /\ backlog.frames < FrameBacklog(scenario)
               /\ tx_queue' = h.queue
               /\ halted' = (h.res.kind # "Ok")
               /\ backlog' = [backlog EXCEPT !.frames = @ + 1]
               /\ last' = Report("tick_can", 0, "", "", <<>>, h.res,
                                 IF h.res.kind = "Ok" THEN "ok"
                                 ELSE IF h.res.kind = "Err" THEN "full" ELSE "",
                                 "frame")
    /\ UNCHANGED <<rx_queue, enabled, bitrate, timestamps_enabled, status, scenario,
                   typed, codec>>

\* the tasks run to completion one after another, in any order
Next ==
    /\ \/ \E b \in HostBytes(scenario) \cup {COMMAND_TERMINATOR} : Serial(b)
       \/ Tick
       \/ \E f \in {None} \cup {Some(x) : x \in BusFrames(scenario)} : TickCan(f)
    /\ UNCHANGED running

Spec == Init /\ [][Next]_vars

\* tick respawns itself every 50 ms: it runs again and again as long as the
\* firmware has not panicked
SpecFair == Spec /\ WF_vars(Tick /\ UNCHANGED running)

(***************************************************************************)
(* The tasks under the RTIC scheduler: a task is started when its interrupt *)
(* or timer fires, at once if nothing runs or if its priority is higher    *)
(* than that of the task running, and after the running task returns       *)
(* otherwise.  serial handles bytes until read() has none; tick and        *)
(* tick_can do their work in one go; tick_blink touches no shared resource. *)
(***************************************************************************)
Tasks == {"serial", "tick", "tick_can", "tick_blink"}

\* a plausible slip: the USART3 handler given a priority above the timers'
Priority_serial_raised ==
    [task \in Tasks |-> IF task = "serial" THEN 3 ELSE 2]

\* #[task(priority=2, ...)] on each of the four
Priority ==
    [task \in Tasks |-> 2]

Top == running[Len(running)]
Pop == SubSeq(running, 1, Len(running) - 1)

Dispatch(task) ==
    /\ ~halted
    /\ \A i \in 1..Len(running) : running[i] # task
    /\ IF running = <<>> THEN TRUE ELSE Priority[task] > Priority[Top]
    /\ running' = Append(running, task)
    /\ UNCHANGED <<rx_queue, tx_queue, enabled, bitrate, timestamps_enabled, status,
                   halted, scenario, typed, backlog, last, codec>>

\* one turn of serial's loop: a byte read and handled
SerialRead ==
    /\ running # <<>>
    /\ Top = "serial"
    /\ \E b \in HostBytes(scenario) \cup {COMMAND_TERMINATOR} : Serial(b)
    /\ UNCHANGED running

\* the running task does what is left of its work and returns
Return ==
    /\ running # <<>>
    /\ running' = Pop
    /\ \/ /\ Top \in {"serial", "tick_blink"}
          /\ UNCHANGED <<rx_queue, tx_queue, enabled, bitrate, timestamps_enabled,
                         status, halted, scenario, typed, backlog, last, codec>>
       \/ /\ Top = "tick"
          /\ Tick
       \/ /\ Top = "tick_can"
          /\ \E f \in {None} \cup {Some(x) : x \in BusFrames(scenario)} : TickCan(f)

InitSched == Init /\ scenario = "traffic"

NextSched ==
    \/ \E task \in Tasks : Dispatch(task)
    \/ SerialRead
    \/ Return

SpecSched == InitSched /\ [][NextSched]_vars

(***************************************************************************)
(* The codec on its own: can_frame_representation applied to a frame, and  *)
(* the transmit handlers applied to the line it gives or to a line of      *)
(* arbitrary argument bytes                                                *)
(***************************************************************************)
CodecIds(ext) == IF ext THEN {0, 291, 305419896, 536870911} ELSE {0, 291, 2047}
CodecBytes == {0, 171}
CodecData == UNION {[1..n -> CodecBytes] : n \in 0..MaxDataLen}
CodecFrames ==
    {DataFrame(FALSE, id, d) : id \in CodecIds(FALSE), d \in CodecData}
    \cup {DataFrame(TRUE, id, d) : id \in CodecIds(TRUE), d \in CodecData}

\* a valid hex digit, a digit too large for an id's first place, a non-hex byte
CodecArgBytes == {Ch.d0, Ch.d8, Ch.g}
CodecLines ==
    {<<c>> \o a : c \in {Ch.t, Ch.T},
                  a \in UNION {[1..n -> CodecArgBytes] : n \in 0..MaxArgs}}

InitCodec ==
    /\ rx_queue = <<>>
    /\ tx_queue = <<>>
    /\ enabled = FALSE
    /\ bitrate = None
    /\ timestamps_enabled = FALSE
    /\ status = StatusFlagsNew
    /\ halted = FALSE
    /\ scenario = "transmit"
    /\ typed = <<>>
    /\ backlog = [replies |-> 0, frames |-> 0]
    /\ running = <<>>
    /\ last = Idle("init")
    /\ codec \in {CodecState("frame", "frame", f, <<>>, DecodeInvalid, NoOutput) :
                    f \in CodecFrames}
                 \cup {CodecState("line", "line", NoFrame, l, DecodeInvalid, NoOutput) :
                    l \in CodecLines}

\* encode: the line of a frame, type byte included
Encode ==
    /\ codec.pc = "frame"
    /\ LET rep == can_frame_representation(codec.frame, TRUE)
       IN codec' = [codec EXCEPT !.pc = IF rep.panic THEN "panic" ELSE "line",
                                 !.line = IF rep.panic THEN <<>> ELSE rep.v]
    /\ UNCHANGED firmware

\* decode: the line parsed by from_bytes and run as a command
Decode ==
    /\ codec.pc = "line"
    /\ LET c == from_bytes(codec.line)
           s == Engine(enabled, bitrate, timestamps_enabled, status)
       IN /\ c.kind = "Ok"
          /\ codec' = [codec EXCEPT
                          !.pc = "decoded",
                          !.res = DecodeTransmit(c.cmd.data,
                                                 c.cmd.variant = "TransmitExtendedFrame"),
                          !.out = run(c.cmd, s).res]
    /\ UNCHANGED firmware

NextCodec == Encode \/ Decode

SpecCodec == InitCodec /\ [][NextCodec]_vars

(***************************************************************************)
(* The claims.  What the claims call things, stated without the model's    *)
(* operators: CR is 13, the bell byte 7, the queues hold 128 bytes and a   *)
(* command 32.                                                             *)
(***************************************************************************)
\* the 14-letter command alphabet: S s O C t T r R F M m V N Z
CommandLetters == {83, 115, 79, 67, 116, 84, 114, 82, 70, 77, 109, 86, 78, 90}

\* a line that fails at parse time
UnknownOrEmpty(line) == line = <<>> \/ line[1] \notin CommandLetters

\* the step just taken was the serial task handling a terminator
TerminatorHandled == last'.op = "serial" /\ last'.byte = 13
\* the last step was the serial task handling a terminator
AfterTerminator == last.op = "serial" /\ last.byte = 13

\* an upper- or lower-case hex digit
IsHexDigit(b) == (b >= 48 /\ b <= 57) \/ (b >= 65 /\ b <= 70) \/ (b >= 97 /\ b <= 102)
\* the uppercase hex digit of a value 0..15
UpperHexDigit(v) == IF v < 10 THEN 48 + v ELSE 55 + v

\* a well-formed transmit line: t + 3 hex digits (id <= 0x7FF) or T + 8 hex
\* digits (id <= 0x1FFFFFFF), a length digit n in 0..8, then 2n hex digits
WellFormedTransmit(line) ==
    /\ Len(line) >= 1
    /\ line[1] \in {116, 84}
    /\ LET k == IF line[1] = 116 THEN 3 ELSE 8
       IN /\ Len(line) >= k + 2
          /\ \A i \in 2..Len(line) : IsHexDigit(line[i])
          /\ line[2] >= 48
          /\ line[2] <= (IF line[1] = 116 THEN 55 ELSE 49)
          /\ line[k + 2] >= 48
          /\ line[k + 2] <= 56
          /\ Len(line) = k + 2 + 2 * (line[k + 2] - 48)

\* the line the encode rule gives a data frame: type byte, 3 or 8 uppercase
\* hex id digits, the digit n, 2n uppercase hex data digits
EncodeRule(frame) ==
    LET k == IF frame.ext THEN 8 ELSE 3
        n == Len(frame.data)
    IN <<IF frame.ext THEN 84 ELSE 116>>
       \o [i \in 1..k |-> UpperHexDigit((frame.id \div (16 ^ (k - i))) % 16)]
       \o <<48 + n>>
       \o [i \in 1..(2 * n) |->
             IF i % 2 = 1 THEN UpperHexDigit(frame.data[(i + 1) \div 2] \div 16)
             ELSE UpperHexDigit(frame.data[i \div 2] % 16)]

\* C1: when a terminated line parses to a command and the outbound queue has
\* room, a successful handler appends exactly its response bytes and one CR
\* to tx_queue, and a failing handler appends exactly one bell byte.
C1_ResponseThenTerminator ==
    [][(TerminatorHandled /\ last'.parse = "Cmd")
        => /\ (last'.out.kind = "Ok"
               /\ Len(tx_queue) + Len(last'.out.data) + 1 <= 128)
              => tx_queue' = tx_queue \o last'.out.data \o <<13>>
           /\ (last'.out.kind = "Err" /\ Len(tx_queue) + 1 <= 128)
              => tx_queue' = tx_queue \o <<7>>]_vars

\* C1's case: a non-empty response was appended behind bytes already queued
C1_Witness ==
    /\ AfterTerminator
    /\ last.parse = "Cmd"
    /\ last.out.kind = "Ok"
    /\ Len(last.out.data) > 0
    /\ Len(tx_queue) > Len(last.out.data) + 1
    /\ ~halted

\* C2 as claimed: a terminated line that fails at parse time (empty, or an
\* unknown first byte) appends exactly one bell byte to the outbound queue.
C2_ParseErrorRingsBell ==
    [][(TerminatorHandled /\ UnknownOrEmpty(rx_queue) /\ Len(tx_queue) < 128)
        => tx_queue' = tx_queue \o <<7>>]_vars

C4_OverflowReportedNotFatal ==
    last.push = "full" => (status.transmit_queue_full /\ ~halted)

\* C5 as claimed: a byte that does not fit the full inbound queue sets
\* rx_queue_full and is dropped with the queue left as it was, and the
\* terminator that follows is processed normally: no panic, the queue
\* drained.
C5_InboundOverflowSurvived ==
    [][(last'.op = "serial")
        => /\ (last'.byte # 13 /\ Len(rx_queue) = 128)
              => (status'.receive_queue_full /\ rx_queue' = rx_queue /\ ~halted')
           /\ (last'.byte = 13 /\ status.receive_queue_full)
              => (~halted' /\ rx_queue' = <<>>)]_vars

\* C6 as claimed: a terminated line longer than the 32-byte command bound
\* is rejected with an error at the terminator, and handled no other way.
C6_LongLineRejected ==
    [][(TerminatorHandled /\ Len(rx_queue) > 32)
        => (last'.parse = "Err" /\ ~halted' /\ rx_queue' = <<>>)]_vars

\* C7 as claimed: a well-formed transmit line is answered with the frame
\* echoed in the encode format (the line itself, in uppercase) and a CR.
C7_TransmitEchoed ==
    (AfterTerminator /\ WellFormedTransmit(last.line))
        => /\ last.out.kind = "Ok"
           /\ last.out.data = [i \in 1..Len(last.line) |->
                                 IF last.line[i] >= 97 /\ last.line[i] <= 102
                                 THEN last.line[i] - 32 ELSE last.line[i]]

\* C8 as claimed: every argument byte sequence of a t or T command gives a
\* decoded frame or InvalidCommand, an ill-formed one InvalidCommand, and
\* none any other outcome.
C8_DecodedOrInvalid ==
    codec.pc = "decoded"
        => /\ codec.res.kind \in {"Ok", "Err"}
           /\ codec.res.kind = "Err" => codec.res.err = "InvalidCommand"
           /\ ~WellFormedTransmit(codec.line) => codec.res.kind = "Err"

\* C9 as claimed: decoding the line encode gives a valid frame yields the
\* frame: the same id kind, id value and data bytes.
C9_RoundTrip ==
    (codec.pc = "decoded" /\ codec.from = "frame")
        => (codec.res.kind = "Ok" /\ codec.res.frame = codec.frame)

\* C10 as claimed: encode gives every valid frame, of 0 to 8 data bytes,
\* the complete line of the encode rule, of length 5+2n or 10+2n.
C10_EncodeComplete ==
    (codec.from = "frame" /\ codec.pc # "frame")
        => /\ codec.pc # "panic"
           /\ codec.line = EncodeRule(codec.frame)
           /\ Len(codec.line) = (IF codec.frame.ext THEN 10 ELSE 5)
                                 + 2 * Len(codec.frame.data)

\* the step just taken ran the command of a terminated line starting with
\* one of the given letters
CommandStep(letters) ==
    /\ TerminatorHandled
    /\ last'.parse = "Cmd"
    /\ rx_queue[1] \in letters

\* C11: once a status flag is set it stays set; no command, the status read
\* included, and no task clears it.
C11_FlagsLatch ==
    [][/\ status.receive_queue_full => status'.receive_queue_full
       /\ status.transmit_queue_full => status'.transmit_queue_full
       /\ status.error_warning => status'.error_warning
       /\ status.data_overrun => status'.data_overrun
       /\ status.error_passive => status'.error_passive
       /\ status.arbitration_lost => status'.arbitration_lost
       /\ status.bus_error => status'.bus_error]_vars

\* C11's case: the status read reported a latched flag (F04: error_passive)
\* and left it set
C11_Witness ==
    /\ AfterTerminator
    /\ last.line = <<70>>
    /\ last.out.data = <<70, 48, 52>>
    /\ status.error_passive

\* C12 as claimed: the channel starts Closed and its state changes only in a
\* step that executes an OpenChannel or a CloseChannel command.
C12_OnlyOpenClose ==
    /\ ~enabled
    /\ [][(enabled' # enabled) => CommandStep({79, 67})]_vars

\* C12 as amended: the channel starts Closed and its state changes only in a
\* step that executes an OpenChannel, a CloseChannel or a Setup command; O
\* leaves it Open, C leaves it Closed, and a Setup can only close it.
C12_OnlyOpenCloseSetup ==
    /\ ~enabled
    /\ [][/\ (enabled' # enabled) => CommandStep({79, 67, 83})
          /\ CommandStep({79}) => enabled'
          /\ CommandStep({67}) => ~enabled'
          /\ CommandStep({83}) => (enabled' => enabled)]_vars

\* C12's case: a Setup command found the channel Open and left it Closed
C12_Witness ==
    /\ AfterTerminator
    /\ last.parse = "Cmd"
    /\ last.line = <<83, 52>>
    /\ last.out.kind = "Ok"
    /\ last.was_open
    /\ ~enabled

\* C13 as claimed: after a Setup command with an argument '0'..'8' the
\* channel is disabled whatever it was before, and a disabled channel stays
\* disabled until an OpenChannel command.
C13_SetupDisables ==
    [][/\ (CommandStep({83}) /\ Len(rx_queue) >= 2
             /\ rx_queue[2] >= 48 /\ rx_queue[2] <= 56) => ~enabled'
       /\ (~enabled /\ enabled') => CommandStep({79})]_vars

\* C14: the line S8 is answered with the bell byte alone (the handler fails,
\* and with room in tx_queue exactly the byte 7 is appended), the stored
\* bitrate is left as it was, and in no state is the stored bitrate 1 Mbit/s.
C14_S8Rejected ==
    /\ [](bitrate # <<8>>)
    /\ [][(TerminatorHandled /\ rx_queue = <<83, 56>>)
            => /\ last'.out.kind = "Err"
               /\ bitrate' = bitrate
               /\ Len(tx_queue) < 128 => tx_queue' = tx_queue \o <<7>>]_vars

\* C14's case: S8 was answered with the bell byte and the bitrate stored
\* before (125 kbit/s) is still there
C14_Witness ==
    /\ AfterTerminator
    /\ last.line = <<83, 56>>
    /\ last.out.kind = "Err"
    /\ bitrate = <<4>>
    /\ tx_queue # <<>>
    /\ tx_queue[Len(tx_queue)] = 7

\* C15: the line O always succeeds with an empty response and leaves the
\* channel Open, the line C likewise leaves it Closed; neither touches the
\* bitrate or the timestamps flag, and with room in tx_queue each appends one
\* CR and leaves the status flags alone: a second O (or C) changes nothing.
C15_OpenCloseIdempotent ==
    [][(TerminatorHandled /\ rx_queue \in {<<79>>, <<67>>})
        => /\ last'.out.kind = "Ok"
           /\ last'.out.data = <<>>
           /\ enabled' = (rx_queue = <<79>>)
           /\ UNCHANGED <<bitrate, timestamps_enabled>>
           /\ Len(tx_queue) < 128
                => (tx_queue' = tx_queue \o <<13>> /\ status' = status)]_vars

\* C15's case: O answered twice in a row with a CR, the second on a channel
\* already Open
C15_Witness ==
    /\ AfterTerminator
    /\ last.line = <<79>>
    /\ last.out.kind = "Ok"
    /\ last.was_open
    /\ enabled
    /\ tx_queue = <<13, 13>>

\* C16: whatever happened before, the line V is answered VFA01 and the line
\* N is answered NF446 (the serial number's bytes as they are), each followed
\* by a CR when tx_queue has room.
C16_VersionAndSerial ==
    [][TerminatorHandled
        => /\ rx_queue = <<86>>
                => /\ last'.out.kind = "Ok"
                   /\ last'.out.data = <<86, 70, 65, 48, 49>>
                   /\ Len(tx_queue) + 6 <= 128
                        => tx_queue' = tx_queue \o <<86, 70, 65, 48, 49, 13>>
           /\ rx_queue = <<78>>
                => /\ last'.out.kind = "Ok"
                   /\ last'.out.data = <<78, 70, 52, 52, 54>>
                   /\ Len(tx_queue) + 6 <= 128
                        => tx_queue' = tx_queue \o <<78, 70, 52, 52, 54, 13>>]_vars

\* C16's case: N answered after commands that changed the channel, the
\* bitrate, the timestamps flag and the status register
C16_Witness ==
    /\ AfterTerminator
    /\ last.line = <<78>>
    /\ last.out.data = <<78, 70, 52, 52, 54>>
    /\ enabled
    /\ bitrate # <<>>
    /\ timestamps_enabled
    /\ status.error_passive

\* C17: a line of at most 32 bytes starting with s, r, R, M or m, whatever
\* its argument bytes, parses to a command that fails with NotImplemented and
\* leaves the channel, the bitrate and the timestamps flag as they were; with
\* room in tx_queue exactly the bell byte is appended and the status flags
\* are left as they were.
C17_NotImplemented ==
    [][(TerminatorHandled /\ rx_queue # <<>> /\ Len(rx_queue) <= 32
          /\ rx_queue[1] \in {115, 114, 82, 77, 109})
        => /\ last'.parse = "Cmd"
           /\ last'.out.kind = "Err"
           /\ last'.out.err = "NotImplemented"
           /\ UNCHANGED <<enabled, bitrate, timestamps_enabled>>
           /\ Len(tx_queue) < 128
                => (tx_queue' = tx_queue \o <<7>> /\ status' = status)]_vars

\* C17's case: M with arguments that are no hex digits was answered with the
\* bell byte on an open channel, no status flag set
C17_Witness ==
    /\ AfterTerminator
    /\ last.line = <<77, 103, 48>>
    /\ last.out.err = "NotImplemented"
    /\ enabled
    /\ status = [receive_queue_full |-> FALSE, transmit_queue_full |-> FALSE,
                 error_warning |-> FALSE, data_overrun |-> FALSE,
                 error_passive |-> FALSE, arbitration_lost |-> FALSE,
                 bus_error |-> FALSE]
    /\ tx_queue[Len(tx_queue)] = 7

\* the bytes of the host's current line that the inbound queue accepted: all
\* of them up to the queue's 128, in arrival order
Accepted == IF Len(typed) <= 128 THEN typed ELSE SubSeq(typed, 1, 128)

\* C19 as claimed: at each terminator the parser is handed exactly the bytes
\* accepted into the inbound queue since the previous terminator, in arrival
\* order.
C19_FifoLine ==
    [][TerminatorHandled
        => /\ last'.parse \in {"Cmd", "Err"}
           /\ last'.line = Accepted]_vars

\* C20 as claimed: after a terminator is handled the inbound queue is empty,
\* parsed or not, and the terminator is never stored; any other byte, with
\* room in the queue, is appended at the back and no command is returned.
C20_QueueAfterByte ==
    [][(last'.op = "serial")
        => /\ last'.byte = 13 => rx_queue' = <<>>
           /\ \A i \in 1..Len(rx_queue') : rx_queue'[i] # 13
           /\ (last'.byte # 13 /\ Len(rx_queue) < 128)
                => /\ rx_queue' = rx_queue \o <<last'.byte>>
                   /\ last'.parse = "None"]_vars

\* C21 as claimed: no input terminates the session: whatever bytes and lines
\* came before, a byte handled by the serial task (with room in tx_queue for
\* the longest response and its CR) leaves the firmware running.
C21_NoInputHalts ==
    [][(last'.op = "serial" /\ Len(tx_queue) + 33 <= 128) => ~halted']_vars

\* the handlers that touch the queues, the CAN controller or the protocol
\* state, among the tasks started and not yet returned
Inside == {i \in 1..Len(running) : running[i] \in {"serial", "tick", "tick_can"}}

\* C22: serial, tick and tick_can never preempt one another: at most one of
\* them is ever started and not yet returned, and a step that touches the
\* queues or the protocol state is taken with exactly one of them running.
C22_NoPreemption ==
    /\ [](Cardinality(Inside) <= 1)
    /\ [][(<<rx_queue, tx_queue, enabled, bitrate, timestamps_enabled, status>>'
             # <<rx_queue, tx_queue, enabled, bitrate, timestamps_enabled, status>>)
            => Cardinality(Inside) = 1]_vars

\* C22's case: serial is in the middle of a line, with a reply and a frame
\* waiting in tx_queue for tick, which has to wait for serial to return
C22_Witness ==
    /\ running = <<"serial">>
    /\ rx_queue # <<>>
    /\ backlog.replies > 0
    /\ backlog.frames > 0

\* C23 as claimed: with the flush task scheduled fairly, every byte appended
\* to tx_queue is eventually written to the serial link, once and in the
\* order it was appended: bytes queued are eventually flushed, and each run
\* of the flush task writes exactly the queue's content, front to back, and
\* leaves the queue empty.
C23_EventuallyWritten ==
    /\ (tx_queue # <<>>) ~> (tx_queue = <<>>)
    /\ [][(last'.op = "tick")
            => (last'.out.data = tx_queue /\ tx_queue' = <<>>)]_vars

\* C24: a run of tick_can on a Closed channel does not call receive and
\* leaves tx_queue as it was, so while the channel is Closed tx_queue changes
\* only by the flush or by the response to a command: no frame line is queued
\* for the host between a CloseChannel or a successful Setup and the next
\* OpenChannel.
C24_ClosedChannelSilent ==
    [][~enabled
        => /\ (last'.op = "tick_can")
                => (last'.recv = "closed" /\ tx_queue' = tx_queue)
           /\ (tx_queue' # tx_queue)
                => (last'.op = "tick" \/ (last'.op = "serial" /\ last'.byte = 13))]_vars

\* C24's case: tick_can ran on a channel closed after a frame had been
\* forwarded, with that frame's line still waiting in tx_queue
C24_Witness ==
    /\ last.op = "tick_can"
    /\ last.recv = "closed"
    /\ ~enabled
    /\ backlog.frames > 0
    /\ backlog.replies > 1

====
